---- MODULE Spec2Model ----
(***************************************************************************)
(* A model of backend/ppt_parser.py: the PowerPointParser object (its      *)
(* constructor, extract_all_slides and get_all_analysis), the per-slide    *)
(* extraction _extract_slide_content and the density classification        *)
(* analyze_slide_density.                                                  *)
(*                                                                         *)
(* Python strings are sequences of one-character strings, so that strip,   *)
(* split, lower, "in" and startswith are computed and not assumed.         *)
(***************************************************************************)
EXTENDS Integers, Sequences, FiniteSets, TLC

VARIABLES
    file,           \* what lies at file_path: [kind, slides]
    constructed,    \* the caller holds a PowerPointParser object
    presentation,   \* self.presentation: [loaded, slides]
    slides_data,    \* self.slides_data
    ret,            \* outcome of the last call on the parser
    init_calls,     \* number of PowerPointParser(...) calls made
    load_attempts,  \* number of times the file was probed and opened
    slide,          \* the slide handed to _extract_slide_content
    slide_out,      \* what _extract_slide_content did with it
    density_in,     \* the slide_data handed to analyze_slide_density
    density_out,    \* what analyze_slide_density returned
    analysis_results, \* main.py: the job store, job id -> entry
    requests,       \* the /api/analyze requests: where each stands
    next_uuid,      \* the uuid4 values handed out so far, plus one
    temp_files,     \* the files in tempfile.gettempdir()
    last_read       \* the last /api/status or /api/report call and its response

vars == <<file, constructed, presentation, slides_data, ret, init_calls,
          load_attempts, slide, slide_out, density_in, density_out,
          analysis_results, requests, next_uuid, temp_files, last_read>>

parserVars == <<file, constructed, presentation, slides_data, ret, init_calls,
                load_attempts>>
extractVars == <<slide, slide_out>>
densityVars == <<density_in, density_out>>
serverVars == <<analysis_results, requests, next_uuid, temp_files, last_read>>

(***************************************************************************)
(* Bounds of the model.                                                    *)
(***************************************************************************)
MaxShapes == 2      \* shapes on a slide
MaxSlides == 2      \* slides of a deck
MaxLoads == 2       \* constructor calls in one behaviour
MaxWordCount == 500 \* word_count handed to analyze_slide_density
MaxImages == 1      \* images_count handed to analyze_slide_density
MaxRequests == 2    \* /api/analyze requests in one behaviour
MaxUploadSlides == 2 \* slides of an uploaded deck

(***************************************************************************)
(* Python str operations.                                                  *)
(***************************************************************************)
NL == "\n"

\* str.isspace for the characters of the model
IsSpace(c) == c \in {" ", NL}

\* a blank string: s.strip() is falsy
RECURSIVE AllSpace(_)
AllSpace(s) == IF s = <<>> THEN TRUE
               ELSE IsSpace(Head(s)) /\ AllSpace(Tail(s))

RECURSIVE LStrip(_)
LStrip(s) == IF s = <<>> THEN <<>>
             ELSE IF IsSpace(Head(s)) THEN LStrip(Tail(s)) ELSE s

RECURSIVE RStrip(_)
RStrip(s) == IF s = <<>> THEN <<>>
             ELSE IF IsSpace(s[Len(s)]) THEN RStrip(SubSeq(s, 1, Len(s) - 1))
             ELSE s

\* str.strip()
Strip(s) == RStrip(LStrip(s))

\* str.split(): the maximal runs of non-whitespace characters, in order.
\* cur is the token being read, out the tokens read so far.
RECURSIVE SplitFrom(_, _, _)
SplitFrom(s, cur, out) ==
    IF s = <<>> THEN (IF cur = <<>> THEN out ELSE Append(out, cur))
    ELSE IF IsSpace(Head(s))
         THEN SplitFrom(Tail(s), <<>>, IF cur = <<>> THEN out ELSE Append(out, cur))
         ELSE SplitFrom(Tail(s), Append(cur, Head(s)), out)

Split(s) == SplitFrom(s, <<>>, <<>>)

\* str.lower() on one character
LowerChar(c) ==
    CASE c = "B" -> "b" [] c = "E" -> "e" [] c = "I" -> "i" [] c = "L" -> "l"
      [] c = "S" -> "s" [] c = "T" -> "t" [] OTHER -> c

\* str.lower()
Lower(s) == [i \in 1..Len(s) |-> LowerChar(s[i])]

\* sub in s
Contains(sub, s) ==
    \E i \in 1..(Len(s) - Len(sub) + 1) : SubSeq(s, i, i + Len(sub) - 1) = sub

\* s.startswith(prefix)
StartsWith(s, prefix) ==
    Len(s) >= Len(prefix) /\ SubSeq(s, 1, Len(prefix)) = prefix

RECURSIVE Concat(_)
Concat(ss) == IF ss = <<>> THEN <<>> ELSE Head(ss) \o Concat(Tail(ss))

\* "\n".join(ss)
RECURSIVE JoinLines(_)
JoinLines(ss) ==
    IF ss = <<>> THEN <<>>
    ELSE IF Len(ss) = 1 THEN Head(ss)
    ELSE Head(ss) \o <<NL>> \o JoinLines(Tail(ss))

\* all sequences over S of length lo..hi
SeqsOf(S, lo, hi) == UNION {[1..n -> S] : n \in lo..hi}

(***************************************************************************)
(* The shapes of a slide, as the presentation library hands them over.     *)
(* A run has a text and a font size in hundredths of a point (0: the run   *)
(* declares none); a paragraph has runs and a level.                       *)
(***************************************************************************)
Run(t, sz) == [text |-> t, size |-> sz]
Para(rs, lvl) == [runs |-> rs, level |-> lvl]

P_blank == Para(<<>>, 0)
P_space == Para(<<Run(<<" ">>, 1050)>>, 0)
P_a == Para(<<Run(<<"a">>, 0)>>, 0)
P_b == Para(<<Run(<<"b">>, 1800), Run(<<" ">>, 0), Run(<<"c">>, 2400)>>, 1)

\* the text frames of the model; the third is the "Point A", blank,
\* "Point B" frame
TextFrames ==
    { <<P_a>>, <<P_space>>, <<P_a, P_blank, P_b>>, <<P_space, P_b>>, <<P_blank>> }

N_Title == <<"T", "i", "t", "l", "e">>
N_Subtitle == <<"S", "u", "b", "t", "i", "t", "l", "e">>
N_List == <<"L", "i", "s", "t">>
N_ListTITLE == <<"L", "i", "s", "t", "T", "I", "T", "L", "E">>
N_Body == <<"B", "o", "d", "y">>
Names == {N_Title, N_Subtitle, N_List, N_ListTITLE, N_Body}

\* MSO_SHAPE_TYPE.PICTURE; 1 is MSO_SHAPE_TYPE.AUTO_SHAPE
PICTURE == 13
ShapeTypes == {PICTURE, 1}

\* a shape with a text frame: its text is the text of the frame
FramedShapes ==
    { [has_text |-> TRUE, has_text_frame |-> TRUE, has_name |-> TRUE, name |-> n,
       text |-> <<>>, paragraphs |-> f, shape_type |-> t] :
        n \in Names, f \in TextFrames, t \in ShapeTypes }
    \cup
    { [has_text |-> TRUE, has_text_frame |-> TRUE, has_name |-> FALSE, name |-> <<>>,
       text |-> <<>>, paragraphs |-> f, shape_type |-> t] :
        f \in TextFrames, t \in ShapeTypes }

\* a shape with a text attribute and no text frame
BareTextShapes ==
    { [has_text |-> TRUE, has_text_frame |-> FALSE, has_name |-> TRUE, name |-> n,
       text |-> <<"a">>, paragraphs |-> <<>>, shape_type |-> t] :
        n \in Names, t \in ShapeTypes }
    \cup
    { [has_text |-> TRUE, has_text_frame |-> FALSE, has_name |-> FALSE, name |-> <<>>,
       text |-> <<"a">>, paragraphs |-> <<>>, shape_type |-> t] : t \in ShapeTypes }

\* a shape with no text attribute (a picture, a graphic frame, a group)
TextlessShapes ==
    { [has_text |-> FALSE, has_text_frame |-> FALSE, has_name |-> TRUE, name |-> N_Body,
       text |-> <<>>, paragraphs |-> <<>>, shape_type |-> t] : t \in ShapeTypes }
    \cup
    { [has_text |-> FALSE, has_text_frame |-> FALSE, has_name |-> FALSE, name |-> <<>>,
       text |-> <<>>, paragraphs |-> <<>>, shape_type |-> t] : t \in ShapeTypes }

ShapeSet == FramedShapes \cup BareTextShapes \cup TextlessShapes

LayoutNames == {"Title Slide", "Blank"}

SlideSet ==
    { [shapes |-> ss, layout_name |-> "Blank"] : ss \in SeqsOf(ShapeSet, 0, MaxShapes) }

\* paragraph.text: the texts of the runs, joined
ParagraphText(p) == Concat([i \in 1..Len(p.runs) |-> p.runs[i].text])

\* shape.text: the paragraphs of the text frame joined by newlines
ShapeText(shape) ==
    IF shape.has_text_frame
    THEN JoinLines([i \in 1..Len(shape.paragraphs) |-> ParagraphText(shape.paragraphs[i])])
    ELSE shape.text

(***************************************************************************)
(* _extract_slide_content                                                  *)
(***************************************************************************)
\* hasattr(shape, "text") and shape.text.strip()
TextBearing(shape) == shape.has_text /\ ~AllSpace(ShapeText(shape))

\* slide_data["text_content"] += shape.text + "\n"
AppendText(buf, shape) == buf \o ShapeText(shape) \o <<NL>>

\* if run.font.size
HasExplicitSize(run) == run.size # 0

\* int(run.font.size.pt): a size of sz hundredths of a point, truncated
FontSizePt(sz) == sz \div 100

\* the sizes one paragraph adds: for run in paragraph.runs: if run.font.size
RunSizesZeroFilled(runs) == [i \in 1..Len(runs) |-> FontSizePt(runs[i].size)]
RunSizes(runs) ==
    LET sized == SelectSeq(runs, HasExplicitSize)
    IN  [i \in 1..Len(sized) |-> FontSizePt(sized[i].size)]

\* the sizes one shape adds, when it has a text frame
FontSizesOf(shape) ==
    IF shape.has_text_frame
    THEN Concat([i \in 1..Len(shape.paragraphs) |-> RunSizes(shape.paragraphs[i].runs)])
    ELSE <<>>

\* "title" in shape.name.lower()
IsTitle(shape) == Contains(<<"t", "i", "t", "l", "e">>, Lower(shape.name))

\* "subtitle" in shape.name.lower()
IsSubtitle(shape) ==
    Contains(<<"s", "u", "b", "t", "i", "t", "l", "e">>, Lower(shape.name))

\* shape.name.startswith("List")
IsList(shape) == StartsWith(shape.name, <<"L", "i", "s", "t">>)

\* if paragraph.text.strip()
NonBlankParagraph(p) == ~AllSpace(ParagraphText(p))

\* the bullets a List shape adds, when it has a text frame
BulletsOfEveryParagraph(shape) ==
    IF shape.has_text_frame
    THEN [i \in 1..Len(shape.paragraphs) |->
            [text |-> ParagraphText(shape.paragraphs[i]),
             level |-> shape.paragraphs[i].level]]
    ELSE <<>>
BulletsOf(shape) ==
    IF shape.has_text_frame
    THEN LET kept == SelectSeq(shape.paragraphs, NonBlankParagraph)
         IN  [i \in 1..Len(kept) |->
                [text |-> ParagraphText(kept[i]), level |-> kept[i].level]]
    ELSE <<>>

\* the if / elif / elif on the name of a text-bearing shape
Classify(sd, shape) ==
    IF IsTitle(shape) THEN [sd EXCEPT !.title = ShapeText(shape)]
    ELSE IF IsSubtitle(shape) THEN [sd EXCEPT !.subtitle = ShapeText(shape)]
    ELSE IF IsList(shape) THEN [sd EXCEPT !.bullets = @ \o BulletsOf(shape)]
    ELSE sd

\* shape.shape_type == 13
IsPictureWithText(shape) == shape.shape_type = PICTURE /\ TextBearing(shape)
IsPicture(shape) == shape.shape_type = PICTURE

\* shape.name of a shape that has no name label raises
NameRaises(shape) == ~shape.has_name

\* one turn of "for shape in slide.shapes"; acc is [raised, data, image_count]
ProcessShape(acc, shape) ==
    IF TextBearing(shape)
    THEN IF NameRaises(shape)
         THEN [acc EXCEPT !.raised = TRUE]
         ELSE LET withText == [acc.data EXCEPT
                                 !.text_content = AppendText(@, shape),
                                 !.font_sizes = @ \o FontSizesOf(shape)]
              IN  [acc EXCEPT
                     !.data = Classify(withText, shape),
                     !.image_count = IF IsPicture(shape) THEN @ + 1 ELSE @]
    ELSE [acc EXCEPT !.image_count = IF IsPicture(shape) THEN @ + 1 ELSE @]

RECURSIVE ProcessShapes(_, _, _)
ProcessShapes(shapes, i, acc) ==
    IF i > Len(shapes) \/ acc.raised THEN acc
    ELSE ProcessShapes(shapes, i + 1, ProcessShape(acc, shapes[i]))

\* the slide_data dictionary as first built
NewSlideData(s, slide_number) ==
    [slide_number |-> slide_number, text_content |-> <<>>, title |-> <<>>,
     subtitle |-> <<>>, bullets |-> <<>>, images_count |-> 0, shapes_count |-> 0,
     font_sizes |-> <<>>, word_count |-> 0, layout_name |-> s.layout_name]

\* len(slide_data["text_content"].split())
WordCountOfChars(text_content) == Len(text_content)
WordCount(text_content) == Len(Split(text_content))

\* _extract_slide_content(slide, slide_number): [raised, data]
ExtractSlideContent(s, slide_number) ==
    LET acc == ProcessShapes(s.shapes, 1,
                   [raised |-> FALSE, data |-> NewSlideData(s, slide_number),
                    image_count |-> 0])
    IN  IF acc.raised
        THEN [raised |-> TRUE, data |-> NewSlideData(s, slide_number)]
        ELSE [raised |-> FALSE,
              data |-> [acc.data EXCEPT
                          !.images_count = acc.image_count,
                          !.shapes_count = Len(s.shapes),
                          !.word_count = WordCount(acc.data.text_content),
                          !.text_content = Strip(acc.data.text_content)]]

(***************************************************************************)
(* The specification of one call of _extract_slide_content.                *)
(***************************************************************************)
NoFile == [kind |-> "none", slides |-> <<>>]
NoPresentation == [loaded |-> FALSE, slides |-> <<>>]
NoRet == [op |-> "none", outcome |-> "none"]
NoSlide == [shapes |-> <<>>, layout_name |-> "Blank"]
NoDensityIn == [word_count |-> 0, images_count |-> 0, bullets |-> <<>>]
Pending == [outcome |-> "pending"]

ParserIdle ==
    /\ file = NoFile
    /\ constructed = FALSE
    /\ presentation = NoPresentation
    /\ slides_data = <<>>
    /\ ret = NoRet
    /\ init_calls = 0
    /\ load_attempts = 0

ExtractIdle == slide = NoSlide /\ slide_out = Pending
DensityIdle == density_in = NoDensityIn /\ density_out = Pending

Requests == 1..MaxRequests
NoBody == [kind |-> "none", slides |-> <<>>]
IdleRequest ==
    [pc |-> "idle", filename |-> <<>>, job_id |-> 0, size |-> 0, body |-> NoBody,
     status_code |-> 0, wrote_temp |-> FALSE, ai_ok |-> <<>>,
     structure_ok |-> FALSE, reports |-> "not called", stores |-> 0]
NoRead == [op |-> "none", job_id |-> 0, format |-> "", status_code |-> 0,
           body |-> [status |-> ""]]
EmptyStore == [id \in {} |-> NoRead]
NoFiles == [path \in {} |-> NoBody]

ServerIdle ==
    /\ analysis_results = EmptyStore
    /\ requests = [r \in Requests |-> IdleRequest]
    /\ next_uuid = 1
    /\ temp_files = NoFiles
    /\ last_read = NoRead

InitExtract ==
    /\ ParserIdle
    /\ DensityIdle
    /\ ServerIdle
    /\ slide \in SlideSet
    /\ slide_out = Pending

ExtractSlide ==
    /\ slide_out.outcome = "pending"
    /\ LET r == ExtractSlideContent(slide, 1)
       IN  slide_out' = IF r.raised THEN [outcome |-> "raise"]
                        ELSE [outcome |-> "return", data |-> r.data]
    /\ UNCHANGED <<parserVars, slide, densityVars, serverVars>>

NextExtract == ExtractSlide

SpecExtract == InitExtract /\ [][NextExtract]_vars

(***************************************************************************)
(* Python float arithmetic (IEEE 754 binary64, round to nearest, ties to   *)
(* even) on the values analyze_slide_density meets.  A float is            *)
(* [sig, exp]: sig the SIG_BITS binary digits of the significand, most     *)
(* significant first, exp the exponent of the first digit; zero has an     *)
(* all-zero sig and exp 0.                                                 *)
(***************************************************************************)
SIG_BITS == 53

Zeros(n) == [i \in 1..n |-> 0]

FloatZero == [sig |-> Zeros(SIG_BITS), exp |-> 0]

RECURSIVE BitsOfNat(_)
\* the binary digits of n >= 1, most significant first
BitsOfNat(n) == IF n <= 1 THEN <<n>> ELSE Append(BitsOfNat(n \div 2), n % 2)

\* float(n) for an integer 0 <= n < 2^SIG_BITS: exact
IntToFloat(n) ==
    IF n = 0 THEN FloatZero
    ELSE LET b == BitsOfNat(n)
         IN  [sig |-> b \o Zeros(SIG_BITS - Len(b)), exp |-> Len(b) - 1]

RECURSIVE Increment(_)
\* bits + 1, in as many digits; all ones wrap to all zeros
Increment(bits) ==
    IF bits = <<>> THEN <<>>
    ELSE IF bits[Len(bits)] = 0 THEN [bits EXCEPT ![Len(bits)] = 1]
    ELSE Append(Increment(SubSeq(bits, 1, Len(bits) - 1)), 0)

\* the significand sig at exponent exp, rounded up or not
Rounded(sig, exp, up) ==
    IF ~up THEN [sig |-> sig, exp |-> exp]
    ELSE IF \A i \in 1..Len(sig) : sig[i] = 1
         THEN [sig |-> <<1>> \o Zeros(Len(sig) - 1), exp |-> exp + 1]
         ELSE [sig |-> Increment(sig), exp |-> exp]

RECURSIVE FirstOne(_, _, _)
\* long division r/d, r < d: the place e of the first binary digit 1 of the
\* quotient (worth 2^-e) and the remainder after it
FirstOne(r, d, e) ==
    IF 2 * r >= d THEN [e |-> e, r |-> 2 * r - d]
    ELSE FirstOne(2 * r, d, e + 1)

RECURSIVE MoreBits(_, _, _, _)
\* the next n binary digits of the quotient, appended to acc, and the
\* remainder after them
MoreBits(r, d, n, acc) ==
    IF n = 0 THEN [bits |-> acc, r |-> r]
    ELSE IF 2 * r >= d THEN MoreBits(2 * r - d, d, n - 1, Append(acc, 1))
    ELSE MoreBits(2 * r, d, n - 1, Append(acc, 0))

\* n / d for integers 0 <= n < 1024 * d, d > 0: the quotient correctly rounded
FloatDivInt(n, d) ==
    IF n = 0 THEN FloatZero
    ELSE LET dd == 1024 * d
             first == FirstOne(n, dd, 1)
             more == MoreBits(first.r, dd, SIG_BITS - 1, <<1>>)
             sig == more.bits
             up == \/ 2 * more.r > dd
                   \/ 2 * more.r = dd /\ sig[SIG_BITS] = 1
         IN  Rounded(sig, 10 - first.e, up)

\* a < b for floats >= 0
FloatLess(a, b) ==
    IF a.sig[1] = 0 THEN b.sig[1] = 1
    ELSE IF b.sig[1] = 0 THEN FALSE
    ELSE IF a.exp # b.exp THEN a.exp < b.exp
    ELSE \E i \in 1..SIG_BITS :
            /\ a.sig[i] < b.sig[i]
            /\ \A j \in 1..(i - 1) : a.sig[j] = b.sig[j]

\* min(a, b): the first argument unless the second is smaller
FloatMin(a, b) == IF FloatLess(b, a) THEN b ELSE a

RECURSIVE MulBitsFrom(_, _, _, _, _)
\* bits * m, digit by digit from the last one, the carry carried along and
\* the digits found put before acc
MulBitsFrom(bits, m, i, carry, acc) ==
    IF i = 0 THEN (IF carry = 0 THEN acc ELSE BitsOfNat(carry) \o acc)
    ELSE MulBitsFrom(bits, m, i - 1, (bits[i] * m + carry) \div 2,
                     <<(bits[i] * m + carry) % 2>> \o acc)

\* a * float(m) for a float a >= 0 and an integer 1 <= m < 1024: the exact
\* product correctly rounded
FloatMulInt(a, m) ==
    IF a.sig[1] = 0 THEN FloatZero
    ELSE LET prod == MulBitsFrom(a.sig, m, SIG_BITS, 0, <<>>)
             extra == Len(prod) - SIG_BITS
             sig == SubSeq(prod, 1, SIG_BITS)
             lost == SubSeq(prod, SIG_BITS + 1, Len(prod))
             up == /\ extra > 0
                   /\ lost[1] = 1
                   /\ \/ \E i \in 2..extra : lost[i] = 1
                      \/ sig[SIG_BITS] = 1
         IN  Rounded(sig, a.exp + extra, up)

(***************************************************************************)
(* analyze_slide_density                                                   *)
(***************************************************************************)
DENSE_WORDS == 150
SPARSE_WORDS == 20
SCORE_SCALE == 100

\* text_density = min(word_count / 100, 1.0) * 100
TextDensity(word_count) ==
    FloatMulInt(FloatMin(FloatDivInt(word_count, SCORE_SCALE), IntToFloat(1)),
                SCORE_SCALE)

\* the if / elif that rates a slide
DensityRatingSparseFirst(word_count, image_count) ==
    IF word_count < SPARSE_WORDS THEN "too_sparse"
    ELSE IF word_count > DENSE_WORDS THEN "too_dense"
    ELSE "optimal"
DensityRating(word_count, image_count) ==
    IF word_count > DENSE_WORDS THEN "too_dense"
    ELSE IF word_count < SPARSE_WORDS /\ image_count = 0 THEN "too_sparse"
    ELSE "optimal"

\* _get_density_recommendation(rating): recommendations.get(rating, "")
GetDensityRecommendation(rating) ==
    CASE rating = "optimal" -> "Slide has good text-to-visual balance"
      [] rating = "too_dense" ->
           "Too much text. Consider condensing or splitting into multiple slides."
      [] rating = "too_sparse" -> "Too little content. Add more information or visuals."
      [] OTHER -> ""

\* analyze_slide_density(slide_data)
AnalyzeSlideDensity(sd) ==
    LET rating == DensityRating(sd.word_count, sd.images_count)
    IN  [word_count |-> sd.word_count,
         bullet_count |-> Len(sd.bullets),
         image_count |-> sd.images_count,
         text_density_score |-> TextDensity(sd.word_count),
         density_rating |-> rating,
         recommendation |-> GetDensityRecommendation(rating)]

DensityInputs ==
    { [word_count |-> w, images_count |-> k, bullets |-> b] :
        w \in 0..MaxWordCount, k \in 0..MaxImages,
        b \in {<<>>, <<[text |-> <<"a">>, level |-> 0]>>} }

InitDensity ==
    /\ ParserIdle
    /\ ExtractIdle
    /\ ServerIdle
    /\ density_in \in DensityInputs
    /\ density_out = Pending

AnalyzeDensity ==
    /\ density_out.outcome = "pending"
    /\ density_out' = [outcome |-> "return", value |-> AnalyzeSlideDensity(density_in)]
    /\ UNCHANGED <<parserVars, extractVars, density_in, serverVars>>

NextDensity == AnalyzeDensity

SpecDensity == InitDensity /\ [][NextDensity]_vars

(***************************************************************************)
(* The PowerPointParser object.                                            *)
(***************************************************************************)
\* the few shapes the slides of a deck are made of: a title, a text shape
\* that has no name label, a picture
DeckShapes ==
    { [has_text |-> TRUE, has_text_frame |-> TRUE, has_name |-> TRUE, name |-> N_Title,
       text |-> <<>>, paragraphs |-> <<P_a>>, shape_type |-> 1],
      [has_text |-> TRUE, has_text_frame |-> TRUE, has_name |-> FALSE, name |-> <<>>,
       text |-> <<>>, paragraphs |-> <<P_a>>, shape_type |-> 1],
      [has_text |-> FALSE, has_text_frame |-> FALSE, has_name |-> TRUE, name |-> N_Body,
       text |-> <<>>, paragraphs |-> <<>>, shape_type |-> PICTURE] }

DeckSlides ==
    { [shapes |-> ss, layout_name |-> l] :
        ss \in SeqsOf(DeckShapes, 0, 1), l \in LayoutNames }

Files ==
    { [kind |-> "missing", slides |-> <<>>], [kind |-> "invalid", slides |-> <<>>] }
    \cup { [kind |-> "pptx", slides |-> d] : d \in SeqsOf(DeckSlides, 0, MaxSlides) }

\* _load_presentation: os.path.exists, then Presentation(file_path); every
\* exception is logged and raised again
LoadPresentationSwallowing(f) ==
    IF f.kind = "pptx"
    THEN [raised |-> FALSE, attempts |-> 1,
          presentation |-> [loaded |-> TRUE, slides |-> f.slides]]
    ELSE [raised |-> FALSE, attempts |-> 1, presentation |-> NoPresentation]
LoadPresentation(f) ==
    IF f.kind = "missing"
    THEN [raised |-> TRUE, attempts |-> 1, presentation |-> NoPresentation]
    ELSE IF f.kind = "invalid"
    THEN [raised |-> TRUE, attempts |-> 1, presentation |-> NoPresentation]
    ELSE [raised |-> FALSE, attempts |-> 1,
          presentation |-> [loaded |-> TRUE, slides |-> f.slides]]

\* get_slide_count
GetSlideCount(pres) == Len(pres.slides)

\* get_presentation_metadata; of its fields only total_slides is computed,
\* the others are copies of the core properties
GetPresentationMetadata(pres) == [total_slides |-> GetSlideCount(pres)]

\* the loop of extract_all_slides from slide idx on: [raised, data], data
\* being self.slides_data as the loop leaves it
RECURSIVE ExtractFrom(_, _, _)
ExtractFrom(slides, idx, data) ==
    IF idx > Len(slides) THEN [raised |-> FALSE, data |-> data]
    ELSE LET r == ExtractSlideContent(slides[idx], idx)
         IN  IF r.raised THEN [raised |-> TRUE, data |-> data]
             ELSE ExtractFrom(slides, idx + 1, Append(data, r.data))

\* extract_all_slides: self.slides_data = [], then the loop
ExtractAll(pres) == ExtractFrom(pres.slides, 1, <<>>)

\* {**slide, "density_analysis": self.analyze_slide_density(slide)}
WithDensity(sd) == sd @@ [density_analysis |-> AnalyzeSlideDensity(sd)]

\* PowerPointParser(file_path)
Construct ==
    /\ init_calls < MaxLoads
    /\ init_calls' = init_calls + 1
    /\ LET r == LoadPresentation(file)
       IN  /\ load_attempts' = load_attempts + r.attempts
           /\ IF r.raised
              THEN /\ ret' = [op |-> "init", outcome |-> "raise"]
                   /\ UNCHANGED <<constructed, presentation, slides_data>>
              ELSE /\ ret' = [op |-> "init", outcome |-> "return"]
                   /\ constructed' = TRUE
                   /\ presentation' = r.presentation
                   /\ slides_data' = <<>>
    /\ UNCHANGED <<file, extractVars, densityVars, serverVars>>

\* parser.extract_all_slides()
ExtractAllSlides ==
    /\ constructed
    /\ LET r == ExtractAll(presentation)
       IN  /\ slides_data' = r.data
           /\ ret' = IF r.raised
                     THEN [op |-> "extract_all_slides", outcome |-> "raise"]
                     ELSE [op |-> "extract_all_slides", outcome |-> "return",
                           slides |-> r.data]
    /\ UNCHANGED <<file, constructed, presentation, init_calls, load_attempts,
                   extractVars, densityVars, serverVars>>

\* parser.get_all_analysis()
GetAllAnalysis ==
    /\ constructed
    /\ LET r == IF slides_data = <<>> THEN ExtractAll(presentation)
                ELSE [raised |-> FALSE, data |-> slides_data]
       IN  /\ slides_data' = r.data
           /\ ret' = IF r.raised
                     THEN [op |-> "get_all_analysis", outcome |-> "raise"]
                     ELSE [op |-> "get_all_analysis", outcome |-> "return",
                           metadata |-> GetPresentationMetadata(presentation),
                           slides |-> [i \in 1..Len(r.data) |-> WithDensity(r.data[i])]]
    /\ UNCHANGED <<file, constructed, presentation, init_calls, load_attempts,
                   extractVars, densityVars, serverVars>>

Init ==
    /\ file \in Files
    /\ constructed = FALSE
    /\ presentation = NoPresentation
    /\ slides_data = <<>>
    /\ ret = NoRet
    /\ init_calls = 0
    /\ load_attempts = 0
    /\ ExtractIdle
    /\ DensityIdle
    /\ ServerIdle

Next == Construct \/ ExtractAllSlides \/ GetAllAnalysis

Spec == Init /\ [][Next]_vars

(***************************************************************************)
(* What the claims about one extracted slide speak of, stated on the       *)
(* slide itself.                                                           *)
(***************************************************************************)
Returned == slide_out.outcome = "return"

ShapeIdx == 1..Len(slide.shapes)

MaxOf(S) == CHOOSE m \in S : \A k \in S : k <= m

\* the shape has a text and it is not blank
NonBlankText(shape) == shape.has_text /\ Strip(ShapeText(shape)) # <<>>

\* the name label of the shape contains w, whatever the case
NameHas(shape, w) == shape.has_name /\ Contains(w, Lower(shape.name))

W_title == <<"t", "i", "t", "l", "e">>
W_subtitle == <<"s", "u", "b", "t", "i", "t", "l", "e">>
W_List == <<"L", "i", "s", "t">>

TitleIdx == {i \in ShapeIdx : NonBlankText(slide.shapes[i]) /\ NameHas(slide.shapes[i], W_title)}
SubtitleIdx ==
    {i \in ShapeIdx : NonBlankText(slide.shapes[i]) /\ NameHas(slide.shapes[i], W_subtitle)}

\* C4: a text-bearing shape whose name contains "title" sets the title, one
\* whose name contains "subtitle" sets the subtitle, and of several shapes
\* that qualify for a field the last one in shape order wins.
C4_LastTitleAndSubtitleWin ==
    Returned =>
        /\ TitleIdx # {} =>
             slide_out.data.title = ShapeText(slide.shapes[MaxOf(TitleIdx)])
        /\ SubtitleIdx # {} =>
             slide_out.data.subtitle = ShapeText(slide.shapes[MaxOf(SubtitleIdx)])

\* the texts of the shapes with non-blank text, in shape order
NonBlankTexts ==
    LET kept == SelectSeq(slide.shapes, NonBlankText)
    IN  [i \in 1..Len(kept) |-> ShapeText(kept[i])]

\* C5: word_count is the number of whitespace-delimited tokens of the final
\* text_content, and text_content is the newline-joined texts of exactly the
\* shapes with non-blank text, in shape order, trimmed.
C5_WordCountAndTextContent ==
    Returned =>
        /\ slide_out.data.word_count = Len(Split(slide_out.data.text_content))
        /\ slide_out.data.text_content = Strip(JoinLines(NonBlankTexts))

\* C5 witness: two text-bearing shapes, the first with leading whitespace
\* that the trim removes, and more than one word counted.
C5_Witness ==
    /\ Returned
    /\ Len(NonBlankTexts) = 2
    /\ JoinLines(NonBlankTexts) # Strip(JoinLines(NonBlankTexts))
    /\ slide_out.data.word_count >= 3

\* the {text, level} pairs of the non-blank paragraphs of a shape
ParagraphNotBlank(p) == Strip(ParagraphText(p)) # <<>>
ExpectedBullets(shape) ==
    LET kept == SelectSeq(shape.paragraphs, ParagraphNotBlank)
    IN  [i \in 1..Len(kept) |-> [text |-> ParagraphText(kept[i]), level |-> kept[i].level]]

NamedList(shape) == shape.has_name /\ StartsWith(shape.name, W_List)

\* C6 as stated: every shape whose name begins with "List" adds one bullet
\* per non-blank paragraph of its text frame, in order; other shapes add none.
C6_ListShapesAddBullets ==
    Returned =>
        slide_out.data.bullets =
            Concat([i \in ShapeIdx |->
                      IF NamedList(slide.shapes[i])
                      THEN ExpectedBullets(slide.shapes[i]) ELSE <<>>])

\* C6 amended: the shapes that add bullets are those whose name begins with
\* "List" and does not contain "title" in any case.
C6_ListNotTitleShapesAddBullets ==
    Returned =>
        slide_out.data.bullets =
            Concat([i \in ShapeIdx |->
                      IF NamedList(slide.shapes[i]) /\ ~NameHas(slide.shapes[i], W_title)
                      THEN ExpectedBullets(slide.shapes[i]) ELSE <<>>])

\* C6 witness: a List shape with a blank paragraph between two non-blank
\* ones has added exactly its two non-blank paragraphs.
C6_Witness ==
    /\ Returned
    /\ \E i \in ShapeIdx :
         /\ slide.shapes[i].name = N_List
         /\ slide.shapes[i].paragraphs = <<P_a, P_blank, P_b>>
    /\ slide_out.data.bullets =
         <<[text |-> <<"a">>, level |-> 0], [text |-> <<"b", " ", "c">>, level |-> 1]>>

\* the explicit sizes of the runs of a shape, in paragraph then run order
DeclaresSize(run) == run.size > 0
DeclaredSizes(shape) ==
    LET runs == Concat([i \in 1..Len(shape.paragraphs) |-> shape.paragraphs[i].runs])
        sized == SelectSeq(runs, DeclaresSize)
    IN  [i \in 1..Len(sized) |-> FontSizePt(sized[i].size)]

\* C7 as stated: font_sizes has one entry for each run of the slide that
\* declares a size, in shape, paragraph, run order.
C7_EveryDeclaredSize ==
    Returned =>
        slide_out.data.font_sizes =
            Concat([i \in ShapeIdx |-> DeclaredSizes(slide.shapes[i])])

\* C7 amended: font_sizes has one entry for each run that declares a size
\* and belongs to a shape with non-blank text, in shape, paragraph, run
\* order, whatever the name of the shape.
C7_DeclaredSizesOfTextShapes ==
    Returned =>
        slide_out.data.font_sizes =
            Concat([i \in ShapeIdx |->
                      IF NonBlankText(slide.shapes[i])
                      THEN DeclaredSizes(slide.shapes[i]) ELSE <<>>])

\* C7 witness: a title shape and a list shape, each with sized and unsized
\* runs, gave their sizes in order.
C7_Witness ==
    /\ Returned
    /\ Len(slide.shapes) = 2
    /\ slide.shapes[1].name = N_Title
    /\ slide.shapes[1].paragraphs = <<P_space, P_b>>
    /\ slide.shapes[2].name = N_List
    /\ slide.shapes[2].paragraphs = <<P_a, P_blank, P_b>>
    /\ slide_out.data.font_sizes = <<10, 18, 24, 18, 24>>

\* C9: no slide makes the extraction abort, whichever optional attributes
\* its shapes lack.
C9_ExtractionNeverAborts == slide_out.outcome # "raise"

\* the slide without its shapes of absent or blank text
TextShapesOnly == [slide EXCEPT !.shapes = SelectSeq(@, NonBlankText)]

\* C10: shapes_count counts every shape, images_count counts the pictures
\* with or without text, and the shapes of absent or blank text change no
\* text-derived field.
C10_CountsAndFrame ==
    Returned =>
        /\ slide_out.data.shapes_count = Len(slide.shapes)
        /\ slide_out.data.images_count =
             Cardinality({i \in ShapeIdx : slide.shapes[i].shape_type = 13})
        /\ LET only == ExtractSlideContent(TextShapesOnly, 1).data
           IN  /\ slide_out.data.text_content = only.text_content
               /\ slide_out.data.title = only.title
               /\ slide_out.data.subtitle = only.subtitle
               /\ slide_out.data.bullets = only.bullets
               /\ slide_out.data.font_sizes = only.font_sizes

\* C10 witness: a picture without text and a picture with text on one
\* slide, both counted as shapes and as images.
C10_Witness ==
    /\ Returned
    /\ Len(slide.shapes) = 2
    /\ ~slide.shapes[1].has_text /\ slide.shapes[1].shape_type = 13
    /\ NonBlankText(slide.shapes[2]) /\ slide.shapes[2].shape_type = 13
    /\ slide_out.data.images_count = 2
    /\ slide_out.data.shapes_count = 2

(***************************************************************************)
(* What the claims about the density rating speak of.                      *)
(***************************************************************************)
\* C3: the rating is too_dense above 150 words whatever the images, too_sparse
\* below 20 words with no image, optimal otherwise, and the recommendation is
\* the fixed message of the rating.
C3_DensityRating ==
    density_out.outcome = "return" =>
        LET w == density_in.word_count
            k == density_in.images_count
            v == density_out.value
        IN  /\ w > 150 => v.density_rating = "too_dense"
            /\ (w < 20 /\ k = 0) => v.density_rating = "too_sparse"
            /\ (w <= 150 /\ ~(w < 20 /\ k = 0)) => v.density_rating = "optimal"
            /\ k = 0 =>
                 /\ w \in 0..19 => v.density_rating = "too_sparse"
                 /\ w \in 20..150 => v.density_rating = "optimal"
                 /\ w >= 151 => v.density_rating = "too_dense"
            /\ v.density_rating = "optimal" =>
                 v.recommendation = "Slide has good text-to-visual balance"
            /\ v.density_rating = "too_dense" =>
                 v.recommendation =
                   "Too much text. Consider condensing or splitting into multiple slides."
            /\ v.density_rating = "too_sparse" =>
                 v.recommendation = "Too little content. Add more information or visuals."

\* C3 witness: 151 words and an image, rated too_dense.
C3_Witness ==
    /\ density_out.outcome = "return"
    /\ density_in.word_count = 151
    /\ density_in.images_count = 1
    /\ density_out.value.density_rating = "too_dense"

\* C11: for every word_count >= 0 the text_density_score lies in [0, 100],
\* equals word_count up to 100 words and is 100 above; so 0 at 0 words, 100
\* at 100 words and 100 at 500 words.
C11_ScoreIsCappedWordCount ==
    density_out.outcome = "return" =>
        LET w == density_in.word_count
            score == density_out.value.text_density_score
        IN  /\ ~FloatLess(score, IntToFloat(0))
            /\ ~FloatLess(IntToFloat(100), score)
            /\ w <= 100 => score = IntToFloat(w)
            /\ w > 100 => score = IntToFloat(100)
            /\ w = 0 => score = IntToFloat(0)
            /\ w = 500 => score = IntToFloat(100)

(***************************************************************************)
(* What the claims about the parser object speak of.                       *)
(***************************************************************************)
ReturnedSlides ==
    /\ ret.op \in {"extract_all_slides", "get_all_analysis"}
    /\ ret.outcome = "return"

\* C1: the slide list returned by extract_all_slides and by get_all_analysis
\* has one entry per slide of the file, in the file's order, entry i carrying
\* slide_number i (1-based), after any sequence of calls.
C1_OneEntryPerSlideInOrder ==
    ReturnedSlides =>
        /\ Len(ret.slides) = Len(file.slides)
        /\ \A i \in 1..Len(ret.slides) :
             /\ ret.slides[i].slide_number = i
             /\ i <= Len(file.slides) =>
                  /\ ret.slides[i].layout_name = file.slides[i].layout_name
                  /\ ret.slides[i].shapes_count = Len(file.slides[i].shapes)

\* C2: the slides of a get_all_analysis result are as many as its
\* metadata.total_slides.
C2_SlidesMatchTotal ==
    (ret.op = "get_all_analysis" /\ ret.outcome = "return") =>
        Len(ret.slides) = ret.metadata.total_slides

\* C8: on a path that does not exist or a file that is no presentation the
\* constructor raises, the caller gets no parser, no slide list and no
\* analysis, and each constructor call probes the file once.
C8_LoadErrorNoParser ==
    /\ load_attempts = init_calls
    /\ file.kind # "pptx" =>
         /\ ~constructed
         /\ ~presentation.loaded
         /\ slides_data = <<>>
         /\ ret.op \in {"none", "init"}
         /\ ret.op = "init" => ret.outcome = "raise"

\* C8 witness: the constructor was called twice on a file that is no
\* presentation and raised.
C8_Witness ==
    /\ file.kind = "invalid"
    /\ init_calls = 2
    /\ ret = [op |-> "init", outcome |-> "raise"]

(***************************************************************************)
(* main.py: the /api/analyze, /api/status and /api/report handlers over    *)
(* the in-memory job store analysis_results.                               *)
(***************************************************************************)

MAX_FILE_SIZE_MB == 50
BYTES_PER_MB == 1048576

\* file.filename of an upload
F_pptx == <<"a", ".", "p", "p", "t", "x">>
F_pdf == <<"a", ".", "p", "d", "f">>
F_nested == <<"d", "/", "a", ".", "p", "p", "t", "x">>
Filenames == {F_pptx, F_pdf, F_nested}

EXT_PPTX == <<".", "p", "p", "t", "x">>
EXT_PPT == <<".", "p", "p", "t">>

EndsWith(s, suffix) ==
    Len(s) >= Len(suffix) /\ SubSeq(s, Len(s) - Len(suffix) + 1, Len(s)) = suffix

\* file.filename.endswith(('.pptx', '.ppt'))
ValidExtension(filename) == EndsWith(filename, EXT_PPTX) \/ EndsWith(filename, EXT_PPT)

\* len(contents): at the limit, and one byte over it
SizeSet == {MAX_FILE_SIZE_MB * BYTES_PER_MB, MAX_FILE_SIZE_MB * BYTES_PER_MB + 1}

\* file_size_mb = len(contents) / (1024 * 1024); file_size_mb > max_file_size_mb.
\* The division is by a power of two, so the float quotient is exact and the
\* comparison is the comparison of the byte counts.
TooLarge(size) == size > MAX_FILE_SIZE_MB * BYTES_PER_MB

\* the slides of an uploaded deck: one with a title shape, one with a text
\* shape that has no name
S_Titled ==
    [shapes |-> << [has_text |-> TRUE, has_text_frame |-> TRUE, has_name |-> TRUE,
                    name |-> N_Title, text |-> <<>>, paragraphs |-> <<P_a>>,
                    shape_type |-> 1] >>,
     layout_name |-> "Title Slide"]
S_Nameless ==
    [shapes |-> << [has_text |-> TRUE, has_text_frame |-> TRUE, has_name |-> FALSE,
                    name |-> <<>>, text |-> <<>>, paragraphs |-> <<P_a>>,
                    shape_type |-> 1] >>,
     layout_name |-> "Blank"]
UploadSlides == {S_Titled, S_Nameless}

\* contents: bytes that are no presentation, or a deck
UploadBodies ==
    { [kind |-> "invalid", slides |-> <<>>] }
    \cup { [kind |-> "pptx", slides |-> d] : d \in SeqsOf(UploadSlides, 0, MaxUploadSlides) }

\* str(uuid.uuid4()): the n-th value handed out; no value is handed out twice
NewJobIdFixed(n) == 1
NewJobId(n) == n

JobIds == 1..(MaxRequests + 1)
Formats == {"json", "html", "markdown"}

\* os.path.join(temp_dir, f"{job_id}_{file.filename}")
TempFile(job_id, filename) == [job_id |-> job_id, filename |-> filename]

\* open(temp_file, 'wb') fails when the name puts the file in a directory
\* that does not exist
OpenRaises(path) == Contains(<<"/">>, path.filename)

\* with open(temp_file, 'wb') as f: f.write(contents)
WriteTemp(files, path, contents) == (path :> contents) @@ files

\* what the file holds when f.write(contents) raises part way
PartialBody == [kind |-> "partial", slides |-> <<>>]

\* finally: if os.path.exists(temp_file): os.remove(temp_file)
CleanupNothing(files, path) == files
Cleanup(files, path) == [q \in (DOMAIN files) \ {path} |-> files[q]]

\* parser = PowerPointParser(temp_file); parser.extract_all_slides();
\* presentation_data = parser.get_all_analysis()
ParsePresentation(f) ==
    LET failed == [raised |-> TRUE, slides_data |-> <<>>, presentation_data |-> NoRet]
        l == LoadPresentation(f)
    IN  IF l.raised THEN failed
        ELSE LET e == ExtractAll(l.presentation)
             IN  IF e.raised THEN failed
                 ELSE LET g == IF e.data = <<>> THEN ExtractAll(l.presentation) ELSE e
                      IN  IF g.raised THEN failed
                          ELSE [raised |-> FALSE, slides_data |-> g.data,
                                presentation_data |->
                                  [metadata |-> GetPresentationMetadata(l.presentation),
                                   slides |-> [i \in 1..Len(g.data) |->
                                                 WithDensity(g.data[i])]]]

(***************************************************************************)
(* ai_analyzer.py: the calls of the external model; ok says whether the    *)
(* call of the model went through.                                         *)
(***************************************************************************)

\* analyze_slide_content(slide_data): the whole body sits in a try whose
\* handler returns the error dictionary
AnalyzeSlideContentRaising(slide_data, ok) ==
    [raised |-> ~ok,
     value |-> [slide_number |-> slide_data.slide_number, ai_feedback |-> "feedback",
                model_used |-> "gpt-3.5-turbo"]]
AnalyzeSlideContent(slide_data, ok) ==
    [raised |-> FALSE,
     value |-> IF ok
               THEN [slide_number |-> slide_data.slide_number,
                     ai_feedback |-> "feedback", model_used |-> "gpt-3.5-turbo"]
               ELSE [slide_number |-> slide_data.slide_number, error |-> "error",
                     ai_feedback |-> "Unable to analyze at this time"]]

\* for slide in parser.slides_data: analysis_results_list.append(...)
RECURSIVE AnalyzeSlidesFrom(_, _, _, _)
AnalyzeSlidesFrom(slides, ai, i, acc) ==
    IF i > Len(slides) THEN [raised |-> FALSE, list |-> acc]
    ELSE LET a == AnalyzeSlideContent(slides[i], ai[i])
         IN  IF a.raised THEN [raised |-> TRUE, list |-> acc]
             ELSE AnalyzeSlidesFrom(slides, ai, i + 1, Append(acc, a.value))

AnalyzeSlides(slides, ai) == AnalyzeSlidesFrom(slides, ai, 1, <<>>)

\* sum(s.get("word_count", 0) for s in slides_data)
RECURSIVE TotalWords(_, _, _)
TotalWords(slides, i, acc) ==
    IF i > Len(slides) THEN acc
    ELSE TotalWords(slides, i + 1, acc + slides[i].word_count)

\* analyze_presentation_structure(slides_data)
AnalyzePresentationStructure(slides, ok) ==
    IF ok
    THEN [presentation_structure_analysis |-> "assessment",
          total_slides |-> Len(slides),
          average_slide_length |->
              IF slides = <<>> THEN 0 ELSE TotalWords(slides, 1, 0) \div Len(slides)]
    ELSE [error |-> "error",
          presentation_structure_analysis |-> "Unable to analyze structure at this time"]

\* report_gen.generate_all_reports(complete_analysis): the three reports
\* that get_report reads, or an exception
GenerateAllReports(complete_analysis, ok) ==
    [raised |-> ~ok,
     reports |-> [json |-> "json", html |-> "html", markdown |-> "markdown"]]

\* analysis_results[job_id] = {...}
StoreResult(store, job_id, entry) ==
    [id \in (DOMAIN store) \cup {job_id} |-> IF id = job_id THEN entry ELSE store[id]]

(***************************************************************************)
(* analyze_presentation: up to `await file.read()`, and from there on.     *)
(***************************************************************************)

Answer(req, code) == [req EXCEPT !.pc = "done", !.status_code = code]

AnalyzeBegin(r) ==
    /\ requests[r].pc = "idle"
    /\ \E filename \in Filenames :
         LET req == [requests[r] EXCEPT !.filename = filename,
                                        !.job_id = NewJobId(next_uuid)]
         IN  requests' = [requests EXCEPT ![r] =
                            IF ~ValidExtension(filename) THEN Answer(req, 400)
                            ELSE [req EXCEPT !.pc = "reading"]]
    /\ next_uuid' = next_uuid + 1
    /\ UNCHANGED <<analysis_results, temp_files, last_read,
                   parserVars, extractVars, densityVars>>

AnalyzeResume(r) ==
    /\ requests[r].pc = "reading"
    /\ \E size \in SizeSet :
         LET req == [requests[r] EXCEPT !.size = size]
             temp_file == TempFile(req.job_id, req.filename)
         IN  IF TooLarge(size)
             THEN /\ requests' = [requests EXCEPT ![r] = Answer(req, 413)]
                  /\ UNCHANGED <<analysis_results, temp_files>>
             ELSE IF OpenRaises(temp_file)
             THEN /\ requests' = [requests EXCEPT ![r] = Answer(req, 500)]
                  /\ UNCHANGED <<analysis_results, temp_files>>
             ELSE
               \E complete \in BOOLEAN :
               IF ~complete
               THEN /\ temp_files' = WriteTemp(temp_files, temp_file, PartialBody)
                    /\ requests' = [requests EXCEPT ![r] = Answer(req, 500)]
                    /\ UNCHANGED analysis_results
               ELSE
               \E body \in UploadBodies :
               \E written \in {WriteTemp(temp_files, temp_file, body)} :
               \E p \in {ParsePresentation(written[temp_file])} :
               LET wreq == [req EXCEPT !.body = body, !.wrote_temp = TRUE]
               IN  /\ temp_files' = Cleanup(written, temp_file)
                   /\ IF p.raised
                      THEN /\ requests' = [requests EXCEPT ![r] = Answer(wreq, 500)]
                           /\ UNCHANGED analysis_results
                      ELSE
                        \E ai \in [1..Len(p.slides_data) -> BOOLEAN] :
                        \E a \in {AnalyzeSlides(p.slides_data, ai)} :
                        LET areq == [wreq EXCEPT !.ai_ok = ai]
                        IN  IF a.raised
                            THEN /\ requests' = [requests EXCEPT ![r] = Answer(areq, 500)]
                                 /\ UNCHANGED analysis_results
                            ELSE
                              \E st \in BOOLEAN, rep \in BOOLEAN :
                              LET complete_analysis ==
                                    [metadata |-> p.presentation_data.metadata,
                                     slides |-> p.presentation_data.slides,
                                     slide_analyses |-> a.list,
                                     structure_analysis |->
                                       AnalyzePresentationStructure(p.slides_data, st)]
                                  g == GenerateAllReports(complete_analysis, rep)
                                  sreq == [areq EXCEPT
                                             !.structure_ok = st,
                                             !.reports = IF g.raised THEN "raised"
                                                         ELSE "returned"]
                              IN  IF g.raised
                                  THEN /\ requests' =
                                            [requests EXCEPT ![r] = Answer(sreq, 500)]
                                       /\ UNCHANGED analysis_results
                                  ELSE /\ analysis_results' =
                                            StoreResult(analysis_results, req.job_id,
                                              [status |-> "completed",
                                               filename |-> req.filename,
                                               total_slides |-> Len(p.slides_data),
                                               analysis |-> complete_analysis,
                                               reports |-> g.reports])
                                       /\ requests' = [requests EXCEPT ![r] =
                                            Answer([sreq EXCEPT !.stores = @ + 1], 200)]
    /\ UNCHANGED <<next_uuid, last_read, parserVars, extractVars, densityVars>>

\* get_status(job_id)
GetStatus(job_id) ==
    /\ last_read' =
         [op |-> "status", job_id |-> job_id, format |-> "", status_code |-> 200,
          body |-> IF job_id \notin DOMAIN analysis_results
                   THEN [status |-> "not found"]
                   ELSE [status |-> analysis_results[job_id].status,
                         filename |-> analysis_results[job_id].filename,
                         total_slides |-> analysis_results[job_id].total_slides]]
    /\ UNCHANGED <<analysis_results, requests, next_uuid, temp_files,
                   parserVars, extractVars, densityVars>>

\* get_report(job_id, format); FileResponse takes no `content` argument, the
\* TypeError ends in the handler of Exception
GetReport(job_id, format) ==
    /\ last_read' =
         IF job_id \notin DOMAIN analysis_results
         THEN [op |-> "report", job_id |-> job_id, format |-> format,
               status_code |-> 404, body |-> [detail |-> "Job not found"]]
         ELSE IF format \in {"html", "markdown"}
         THEN [op |-> "report", job_id |-> job_id, format |-> format,
               status_code |-> 500, body |-> [detail |-> "Error retrieving report"]]
         ELSE LET result == analysis_results[job_id]
              IN  [op |-> "report", job_id |-> job_id, format |-> format,
                   status_code |-> 200,
                   body |-> [status |-> result.status, filename |-> result.filename,
                             total_slides |-> result.total_slides,
                             analysis |-> result.analysis,
                             report |-> result.reports.json]]
    /\ UNCHANGED <<analysis_results, requests, next_uuid, temp_files,
                   parserVars, extractVars, densityVars>>

InitServer ==
    /\ ParserIdle
    /\ ExtractIdle
    /\ DensityIdle
    /\ ServerIdle

NextServer ==
    \/ \E r \in Requests : AnalyzeBegin(r)
    \/ \E r \in Requests : AnalyzeResume(r)
    \/ \E job_id \in JobIds : GetStatus(job_id)
    \/ \E job_id \in JobIds, format \in Formats : GetReport(job_id, format)

SpecServer == InitServer /\ [][NextServer]_vars

(***************************************************************************)
(* The job store under interleaved requests and reads.                     *)
(***************************************************************************)

\* the deck in these bytes loads and every one of its slides is extracted
Parses(body) ==
    /\ body.kind # "none"
    /\ ~LoadPresentation(body).raised
    /\ ~ExtractAll(LoadPresentation(body).presentation).raised

\* the request went through parsing, the model calls and the reports
RanToStore(req) ==
    /\ req.pc = "done"
    /\ req.status_code = 200
    /\ req.wrote_temp
    /\ Parses(req.body)
    /\ Len(req.ai_ok) = Len(req.body.slides)
    /\ req.reports = "returned"

C12_EntriesHaveOneOwner ==
    \A id \in DOMAIN analysis_results :
        /\ analysis_results[id].status = "completed"
        /\ \E r \in Requests :
             /\ requests[r].job_id = id
             /\ RanToStore(requests[r])
             /\ requests[r].stores = 1
             /\ analysis_results[id].filename = requests[r].filename
             /\ \A q \in Requests \ {r} : requests[q].job_id # id

C12_FailedWritesNothing ==
    \A r \in Requests :
        /\ requests[r].stores <= 1
        /\ (requests[r].pc # "idle" /\ requests[r].status_code # 200) =>
              /\ requests[r].stores = 0
              /\ requests[r].job_id \notin DOMAIN analysis_results

C12_ReadersSeeCompleted ==
    /\ last_read.op = "status" => last_read.body.status \in {"completed", "not found"}
    /\ (last_read.op = "report" /\ last_read.status_code = 200) =>
          last_read.body.status = "completed"

C12_EntriesStay ==
    \A id \in DOMAIN analysis_results :
        /\ id \in DOMAIN analysis_results'
        /\ analysis_results'[id] = analysis_results[id]

C12_WriteEndsOwnRequest ==
    analysis_results' # analysis_results =>
        \E r \in Requests :
            /\ requests[r].pc = "reading"
            /\ RanToStore(requests'[r])
            /\ requests[r].job_id \notin DOMAIN analysis_results
            /\ DOMAIN analysis_results' = DOMAIN analysis_results \cup {requests[r].job_id}

C12_MissingIdNotFound ==
    (last_read' # last_read /\ last_read'.job_id \notin DOMAIN analysis_results) =>
        \/ last_read'.op = "status" /\ last_read'.body = [status |-> "not found"]
        \/ last_read'.op = "report" /\ last_read'.status_code = 404

\* C12: under any interleaving of analyze requests with status and report
\* reads, a job id enters the store at most once, written by the request that
\* generated it and only after its parsing, model calls and report generation
\* are done; a request that fails writes nothing; every entry has status
\* "completed" and is never changed or removed; a read of an id without an
\* entry answers not found.
C12_StoreWrittenOnceByOwner ==
    /\ [](C12_EntriesHaveOneOwner /\ C12_FailedWritesNothing /\ C12_ReadersSeeCompleted)
    /\ [][C12_EntriesStay /\ C12_WriteEndsOwnRequest /\ C12_MissingIdNotFound]_vars

\* one request stored its job, the other failed at report generation and
\* left no entry, and a status read of the failed id answered not found
C12_Witness ==
    \E r \in Requests, q \in Requests :
        /\ r # q
        /\ RanToStore(requests[r])
        /\ requests[r].job_id \in DOMAIN analysis_results
        /\ requests[q].pc = "done"
        /\ requests[q].status_code = 500
        /\ requests[q].wrote_temp
        /\ Parses(requests[q].body)
        /\ requests[q].reports = "raised"
        /\ requests[q].job_id \notin DOMAIN analysis_results
        /\ last_read.op = "status"
        /\ last_read.job_id = requests[q].job_id
        /\ last_read.body = [status |-> "not found"]

(***************************************************************************)
(* The per-slide analyses of a stored job.                                 *)
(***************************************************************************)

IsErrorEntry(a) == "error" \in DOMAIN a /\ "model_used" \notin DOMAIN a
IsFeedbackEntry(a) == "model_used" \in DOMAIN a /\ "error" \notin DOMAIN a

\* C13: for a request on a deck that parses, every slide is handed to the
\* model and report generation is reached whatever the model calls did; when
\* the reports are returned the job is stored as completed with one
\* slide_analyses entry per slide, in slide order, numbered as the slide at
\* its position, and an entry is an error entry exactly for the slides whose
\* model call failed.
C13_OneAnalysisPerSlide ==
    \A r \in Requests :
        LET req == requests[r]
        IN  (req.pc = "done" /\ req.wrote_temp /\ Parses(req.body)) =>
              /\ Len(req.ai_ok) = Len(req.body.slides)
              /\ req.reports # "not called"
              /\ req.reports = "returned" =>
                   /\ req.status_code = 200
                   /\ req.job_id \in DOMAIN analysis_results
                   /\ LET entry == analysis_results[req.job_id]
                          sa == entry.analysis.slide_analyses
                          sl == entry.analysis.slides
                      IN  /\ entry.status = "completed"
                          /\ entry.total_slides = Len(req.body.slides)
                          /\ Len(sa) = Len(req.body.slides)
                          /\ Len(sl) = Len(req.body.slides)
                          /\ \A i \in 1..Len(sa) :
                               /\ sa[i].slide_number = i
                               /\ sl[i].slide_number = i
                               /\ IF req.ai_ok[i] THEN IsFeedbackEntry(sa[i])
                                  ELSE IsErrorEntry(sa[i])

\* a stored job of two slides whose second model call failed
C13_Witness ==
    \E r \in Requests :
        /\ RanToStore(requests[r])
        /\ Len(requests[r].body.slides) = 2
        /\ requests[r].ai_ok = <<TRUE, FALSE>>
        /\ requests[r].job_id \in DOMAIN analysis_results
        /\ LET sa == analysis_results[requests[r].job_id].analysis.slide_analyses
           IN  /\ Len(sa) = 2
               /\ IsFeedbackEntry(sa[1])
               /\ IsErrorEntry(sa[2])
               /\ sa[2].slide_number = 2

(***************************************************************************)
(* The temporary file of a request.                                        *)
(***************************************************************************)

TempFileOf(req) == TempFile(req.job_id, req.filename)

\* C14: once the uploaded bytes are written to the temporary file, the file
\* is gone when the request has returned, whether with success, after a
\* parse failure or after a failure of report generation; a request rejected
\* for its extension (400) or its size (413) never creates the file.
C14_TempFileRemoved ==
    \A r \in Requests :
        LET req == requests[r]
        IN  /\ (req.pc = "done" /\ req.wrote_temp) =>
                  TempFileOf(req) \notin DOMAIN temp_files
            /\ (req.pc = "done" /\ req.status_code \in {400, 413}) =>
                  /\ ~req.wrote_temp
                  /\ TempFileOf(req) \notin DOMAIN temp_files

\* one request stored its job, the other could not be parsed; both wrote
\* their file and neither file is left
C14_Witness ==
    \E r \in Requests, q \in Requests :
        /\ RanToStore(requests[r])
        /\ requests[q].pc = "done"
        /\ requests[q].status_code = 500
        /\ requests[q].wrote_temp
        /\ ~Parses(requests[q].body)
        /\ TempFileOf(requests[r]) \notin DOMAIN temp_files
        /\ TempFileOf(requests[q]) \notin DOMAIN temp_files

====
